---- MODULE Spec2Model ----
(***************************************************************************)
(* A model of memfs, an in-memory filesystem (package memfs).              *)
(*                                                                         *)
(* The tree of dir and File objects is the function nodes, keyed by the    *)
(* sequence of names that leads from the root dir to the object; a dir's   *)
(* children map is the set of keys one name longer than its own.  No code  *)
(* of the package removes or replaces a dir, so a dir's key identifies the *)
(* dir object and its mutex.  Byte slices live in the heap arrays: a       *)
(* bytes.Buffer is a window (arr, off, len) onto one backing array, and    *)
(* two buffers may share an array.                                         *)
(*                                                                         *)
(* Spec is one caller issuing calls one after the other; each action is a  *)
(* whole call.  A call that waits for a mutex nobody will release never    *)
(* returns: its result is Blocked and the caller makes no further call.    *)
(***************************************************************************)
EXTENDS Integers, Sequences, FiniteSets, TLC

\* ---------------------------------------------------------------- bounds
Names == {"a", "b"}
Bytes == {1, 2}
Perms == {420, 511}
MaxDepth == 2
MaxLen == 1
MaxNodes == 2
MaxHandles == 1
MaxBuf == 1
MaxN == 2
MaxProcs == 2
MaxCalls == 2

\* ------------------------------------------------------ program constants
DefaultPerm == 438
DirSize == 4096

\* ------------------------------------------------------------ error values
OK == "nil"
ErrInvalid == "Invalid path"
ErrNotDir == "not a directory"
ErrNoEnt == "no such file or directory"
ErrIsDir == "path is a directory"
ErrReadDir == "is a directory"
ErrClosed == "file closed"
EOF == "EOF"
Blocked == "blocked"

\* ------------------------------------------------------------------ paths
SeqsUpTo(S, n) == UNION {[1..k -> S] : k \in 0..n}

TreePaths == SeqsUpTo(Names, MaxDepth)
RootPath == <<>>
DotPath == <<".">>

\* A path argument is the list of its slash-separated elements
\* (strings.Split(path, "/")): "a/b" is <<"a","b">>, "." is <<".">>,
\* "" is <<"">>, "a/.." is <<"a","..">>.
EmptyPath == <<"">>
BadPaths == {<<"a", "..">>}
Paths == (TreePaths \ {RootPath}) \cup {DotPath} \cup BadPaths

ValidPath(path) ==
    \/ path = DotPath
    \/ /\ Len(path) >= 1
       /\ \A i \in 1..Len(path) : path[i] \notin {"", ".", ".."}

ValidPaths == {p \in Paths : ValidPath(p)}

\* syspath.Split followed by strings.TrimSuffix(dirPart, "/"), and the
\* strings.Split of getDir: "" is the root, handled before splitting.
DirPart(path) == SubSeq(path, 1, Len(path) - 1)
FilePart(path) == path[Len(path)]

Data == SeqsUpTo(Bytes, MaxLen)

\* ------------------------------------------------------------------ nodes
NoNode == [kind |-> "none"]
NewDir(name, perm) == [kind |-> "dir", name |-> name, perm |-> perm]
NewFile(name, perm, arr, len) ==
    [kind |-> "file", name |-> name, perm |-> perm,
     arr |-> arr, off |-> 0, len |-> len, closed |-> FALSE]

IsDir(n) == n.kind = "dir"
IsFile(n) == n.kind = "file"

Child(ns, cur, part) ==
    IF Append(cur, part) \in DOMAIN ns THEN ns[Append(cur, part)] ELSE NoNode

ChildNames(ns, d) == {nm \in Names : Child(ns, d, nm) # NoNode}

NodeCount(ns) == Cardinality({p \in DOMAIN ns : ns[p] # NoNode}) - 1

\* ------------------------------------------------------------- byte heap
NilArr == 0
ArrIds == 1..(MaxNodes + MaxHandles + 1 + MaxProcs * MaxCalls)

\* nodes    the tree: key -> dir, File or NoNode
\* locked   the dirs whose mu is held
\* arrays   the backing arrays of the byte slices
\* handles  the caller's handle variables: what Open returned
\* stuck    the caller is inside a call that waits for a mutex
\* ghost    per handle, what the caller has observed (not program state)
\* procs    the concurrent callers: the call each is in and where it stands
\* objs     the File objects a create has replaced in the tree and a caller
\*          still points to
\* wrote    the arguments of the WriteFile calls made so far (not program
\*          state)
VARIABLES nodes, locked, arrays, handles, stuck, ghost, procs, objs, wrote

vars == <<nodes, locked, arrays, handles, stuck, ghost, procs, objs, wrote>>

\* What the one-caller specification leaves alone.
conc == <<procs, objs, wrote>>

\* ---------------------------------------------------------------- FS.New
Root == [kind |-> "dir", name |-> "", perm |-> 0]

New == [p \in TreePaths |-> IF p = RootPath THEN Root ELSE NoNode]

\* ------------------------------------------------------------ FS.MkdirAll
\* A MkdirAll that also sets perm on the directories it finds.
MkdirAllStepChmod(ns, lk, cur, part, perm) ==
    IF cur \in lk
    THEN [nodes |-> ns, locked |-> lk, next |-> cur, err |-> Blocked]
    ELSE LET child == Child(ns, cur, part) IN
         IF child = NoNode \/ IsDir(child)
         THEN [nodes |-> [ns EXCEPT ![Append(cur, part)] = NewDir(part, perm)],
               locked |-> lk, next |-> Append(cur, part), err |-> OK]
         ELSE [nodes |-> ns, locked |-> lk \cup {cur}, next |-> cur,
               err |-> ErrNotDir]

\* One iteration of the loop over parts: the critical section on cur.mu.
\* The branch that meets a File returns with cur.mu still held.
MkdirAllStep(ns, lk, cur, part, perm) ==
    IF cur \in lk
    THEN [nodes |-> ns, locked |-> lk, next |-> cur, err |-> Blocked]
    ELSE LET child == Child(ns, cur, part) IN
         IF child = NoNode
         THEN [nodes |-> [ns EXCEPT ![Append(cur, part)] = NewDir(part, perm)],
               locked |-> lk, next |-> Append(cur, part), err |-> OK]
         ELSE IF ~IsDir(child)
         THEN [nodes |-> ns, locked |-> lk \cup {cur}, next |-> cur,
               err |-> ErrNotDir]
         ELSE [nodes |-> ns, locked |-> lk, next |-> Append(cur, part),
               err |-> OK]

RECURSIVE MkdirAllWalk(_, _, _, _, _)
MkdirAllWalk(ns, lk, cur, parts, perm) ==
    IF parts = <<>>
    THEN [nodes |-> ns, locked |-> lk, err |-> OK]
    ELSE LET s == MkdirAllStep(ns, lk, cur, Head(parts), perm) IN
         IF s.err # OK
         THEN [nodes |-> s.nodes, locked |-> s.locked, err |-> s.err]
         ELSE MkdirAllWalk(s.nodes, s.locked, s.next, Tail(parts), perm)

MkdirAllOp(ns, lk, path, perm) ==
    IF ~ValidPath(path)
    THEN [nodes |-> ns, locked |-> lk, err |-> ErrInvalid]
    ELSE IF path = DotPath
    THEN [nodes |-> ns, locked |-> lk, err |-> OK]
    ELSE MkdirAllWalk(ns, lk, RootPath, path, perm)

\* -------------------------------------------------------------- FS.getDir
\* One iteration: lock cur.mu, look the part up, unlock (deferred) on every
\* way out.
getDirStep(ns, lk, cur, part) ==
    IF cur \in lk
    THEN [next |-> cur, err |-> Blocked]
    ELSE LET child == Child(ns, cur, part) IN
         IF child = NoNode THEN [next |-> cur, err |-> ErrNoEnt]
         ELSE IF ~IsDir(child) THEN [next |-> cur, err |-> ErrNotDir]
         ELSE [next |-> Append(cur, part), err |-> OK]

RECURSIVE getDirWalk(_, _, _, _)
getDirWalk(ns, lk, cur, parts) ==
    IF parts = <<>>
    THEN [dir |-> cur, err |-> OK]
    ELSE LET s == getDirStep(ns, lk, cur, Head(parts)) IN
         IF s.err # OK
         THEN [dir |-> cur, err |-> s.err]
         ELSE getDirWalk(ns, lk, s.next, Tail(parts))

\* path is the already split dirPart; <<>> is the "" that names the root.
getDir(ns, lk, path) ==
    IF path = <<>> THEN [dir |-> RootPath, err |-> OK]
    ELSE getDirWalk(ns, lk, RootPath, path)

\* ----------------------------------------------------------------- FS.get
getStep(ns, lk, cur, part, isLast) ==
    IF cur \in lk
    THEN [next |-> cur, chld |-> cur, err |-> Blocked]
    ELSE LET child == Child(ns, cur, part) IN
         IF child = NoNode
         THEN [next |-> cur, chld |-> cur, err |-> ErrNoEnt]
         ELSE IF IsFile(child)
         THEN IF isLast
              THEN [next |-> cur, chld |-> Append(cur, part), err |-> OK]
              ELSE [next |-> cur, chld |-> cur, err |-> ErrNotDir]
         ELSE [next |-> Append(cur, part), chld |-> Append(cur, part),
               err |-> OK]

RECURSIVE getWalk(_, _, _, _, _)
getWalk(ns, lk, cur, chld, parts) ==
    IF parts = <<>>
    THEN [chld |-> chld, err |-> OK]
    ELSE LET s == getStep(ns, lk, cur, Head(parts), Len(parts) = 1) IN
         IF s.err # OK
         THEN [chld |-> chld, err |-> s.err]
         ELSE getWalk(ns, lk, s.next, s.chld, Tail(parts))

\* path <<>> is the "" that names the root.
get(ns, lk, path) ==
    IF path = <<>> THEN [chld |-> RootPath, err |-> OK]
    ELSE getWalk(ns, lk, RootPath, RootPath, path)

\* ------------------------------------------------------------ the handles
NoHandle == [kind |-> "none"]
NewFhDir(d) == [kind |-> "fhDir", dir |-> d, idx |-> 0]

HandleIds == 1..MaxHandles

\* The arrays some File object (stored or handed out) still points into.
Refs(ns, hs) ==
    ({ns[p].arr : p \in {q \in DOMAIN ns : IsFile(ns[q])}}
       \cup {hs[h].arr : h \in {i \in DOMAIN hs : IsFile(hs[i])}}) \ {NilArr}

\* The garbage collector: an array nothing points into is gone.
Collect(ns, hs, arrs) ==
    [i \in ArrIds |-> IF i \in Refs(ns, hs) THEN arrs[i] ELSE <<>>]

Contents(arrs, arr) == IF arr = NilArr THEN <<>> ELSE arrs[arr]

\* bytes.NewBuffer(data): a buffer whose backing array is the caller's slice,
\* an array no File object points into yet.
NewBuffer(ns, hs, arrs, data) ==
    IF data = <<>>
    THEN [arr |-> NilArr, len |-> 0, arrays |-> arrs]
    ELSE LET free == ArrIds \ Refs(ns, hs)
             id == CHOOSE i \in free : \A j \in free : i <= j
         IN [arr |-> id, len |-> Len(data),
             arrays |-> [arrs EXCEPT ![id] = data]]

\* --------------------------------------------------------------- FS.create
\* A create that does not look at what the name is bound to.
createStepClobber(ns, lk, dir, filePart) ==
    IF dir \in lk
    THEN [nodes |-> ns, f |-> dir, err |-> Blocked]
    ELSE [nodes |-> [ns EXCEPT ![Append(dir, filePart)] =
                         NewFile(filePart, DefaultPerm, NilArr, 0)],
          f |-> Append(dir, filePart), err |-> OK]

\* The critical section on dir.mu: a File of the name is replaced by a new,
\* empty File object with permission 0666.
createStep(ns, lk, dir, filePart) ==
    IF dir \in lk
    THEN [nodes |-> ns, f |-> dir, err |-> Blocked]
    ELSE LET existing == Child(ns, dir, filePart) IN
         IF existing # NoNode /\ ~IsFile(existing)
         THEN [nodes |-> ns, f |-> dir, err |-> ErrIsDir]
         ELSE [nodes |-> [ns EXCEPT ![Append(dir, filePart)] =
                              NewFile(filePart, DefaultPerm, NilArr, 0)],
               f |-> Append(dir, filePart), err |-> OK]

create(ns, lk, path) ==
    IF ~ValidPath(path)
    THEN [nodes |-> ns, f |-> RootPath, err |-> ErrInvalid]
    ELSE LET p == IF path = DotPath THEN EmptyPath ELSE path
             d == getDir(ns, lk, DirPart(p))
         IN IF d.err # OK
            THEN [nodes |-> ns, f |-> RootPath, err |-> d.err]
            ELSE createStep(ns, lk, d.dir, FilePart(p))

\* ------------------------------------------------------------ FS.WriteFile
\* A WriteFile that leaves the permission alone.
WriteFileAssignKeepPerm(f, buf, perm) ==
    [f EXCEPT !.arr = buf.arr, !.off = 0, !.len = buf.len]

\* f.content = bytes.NewBuffer(data); f.perm = perm
WriteFileAssign(f, buf, perm) ==
    [f EXCEPT !.arr = buf.arr, !.off = 0, !.len = buf.len, !.perm = perm]

\* A WriteFile that truncates the stored File and writes into the array it
\* already has (f.content.Reset(); f.content.Write(data)) when data fits.
WriteFileInPlace(ns, lk, hs, arrs, path, data, perm) ==
    IF ~ValidPath(path)
    THEN [nodes |-> ns, arrays |-> arrs, err |-> ErrInvalid]
    ELSE LET p == IF path = DotPath THEN EmptyPath ELSE path
             c == create(ns, lk, p)
         IN IF c.err # OK
            THEN [nodes |-> c.nodes, arrays |-> arrs, err |-> c.err]
            ELSE LET old == ns[c.f]
                     fits == /\ IsFile(old)
                             /\ old.arr # NilArr
                             /\ data # <<>>
                             /\ Len(data) <= Len(arrs[old.arr])
                     buf == IF fits
                            THEN [arr |-> old.arr, len |-> Len(data),
                                  arrays |-> [arrs EXCEPT ![old.arr] =
                                      data \o SubSeq(@, Len(data) + 1, Len(@))]]
                            ELSE NewBuffer(c.nodes, hs, arrs, data)
                 IN [nodes |-> [c.nodes EXCEPT ![c.f] =
                                    WriteFileAssign(@, buf, perm)],
                     arrays |-> buf.arrays, err |-> OK]

WriteFileOp(ns, lk, hs, arrs, path, data, perm) ==
    IF ~ValidPath(path)
    THEN [nodes |-> ns, arrays |-> arrs, err |-> ErrInvalid]
    ELSE LET p == IF path = DotPath THEN EmptyPath ELSE path
             c == create(ns, lk, p)
         IN IF c.err # OK
            THEN [nodes |-> c.nodes, arrays |-> arrs, err |-> c.err]
            ELSE LET buf == NewBuffer(c.nodes, hs, arrs, data) IN
                 [nodes |-> [c.nodes EXCEPT ![c.f] =
                                 WriteFileAssign(@, buf, perm)],
                  arrays |-> buf.arrays, err |-> OK]

\* ----------------------------------------------------------------- FS.Open
\* bytes.NewBuffer(cc.content.Bytes()): the handle's buffer is a window of
\* its own onto the array of the stored File (whose off is always 0: nothing
\* reads a stored File).
OpenHandle(cc) ==
    IF IsFile(cc)
    THEN NewFile(cc.name, cc.perm, cc.arr, cc.len - cc.off)
    ELSE NoHandle

OpenOp(ns, lk, name) ==
    IF ~ValidPath(name)
    THEN [handle |-> NoHandle, err |-> ErrInvalid]
    ELSE LET p == IF name = DotPath THEN RootPath ELSE name
             g == get(ns, lk, p)
         IN IF g.err # OK
            THEN [handle |-> NoHandle, err |-> g.err]
            ELSE IF IsFile(ns[g.chld])
            THEN [handle |-> OpenHandle(ns[g.chld]), err |-> OK]
            ELSE [handle |-> NewFhDir(g.chld), err |-> OK]

\* ------------------------------------------------------------------- File
Min(a, b) == IF a <= b THEN a ELSE b

\* An fs.FileMode: the permission bits and the fs.ModeDir bit (1 << 31).
Mode(perm, dir) == [perm |-> perm, dir |-> dir]

NoStat == [name |-> "", size |-> 0, mode |-> Mode(0, FALSE)]

FileStat(f) ==
    IF f.closed
    THEN [stat |-> NoStat, err |-> ErrClosed]
    ELSE [stat |-> [name |-> f.name, size |-> f.len - f.off, mode |-> Mode(f.perm, FALSE)],
          err |-> OK]

\* A Read that does not look at closed.
FileReadNoCheck(f, arrs, m) ==
    IF f.off >= f.len
    THEN [f |-> [f EXCEPT !.off = 0, !.len = 0], out |-> <<>>,
          err |-> IF m = 0 THEN OK ELSE EOF]
    ELSE LET n == IF m <= f.len - f.off THEN m ELSE f.len - f.off IN
         [f |-> [f EXCEPT !.off = @ + n],
          out |-> SubSeq(Contents(arrs, f.arr), f.off + 1, f.off + n),
          err |-> OK]

\* f.content.Read(b) with len(b) = m.  bytes.Buffer.Read on a buffer with
\* nothing unread resets it (buf = buf[:0], off = 0) and returns io.EOF,
\* or nil when len(b) = 0; otherwise it copies and advances off.
FileRead(f, arrs, m) ==
    IF f.closed
    THEN [f |-> f, out |-> <<>>, err |-> ErrClosed]
    ELSE IF f.off >= f.len
    THEN [f |-> [f EXCEPT !.off = 0, !.len = 0], out |-> <<>>,
          err |-> IF m = 0 THEN OK ELSE EOF]
    ELSE LET n == Min(m, f.len - f.off) IN
         [f |-> [f EXCEPT !.off = @ + n],
          out |-> SubSeq(Contents(arrs, f.arr), f.off + 1, f.off + n),
          err |-> OK]

FileClose(f) ==
    IF f.closed
    THEN [f |-> f, err |-> ErrClosed]
    ELSE [f |-> [f EXCEPT !.closed = TRUE], err |-> OK]

\* ------------------------------------------------------------------ fhDir
DirStat(ns, d) ==
    [stat |-> [name |-> ns[d.dir].name, size |-> DirSize,
               mode |-> Mode(ns[d.dir].perm, TRUE)],
     err |-> OK]

DirRead(d) == [f |-> d, out |-> <<>>, err |-> ErrReadDir]

DirClose(d) == [f |-> d, err |-> OK]

\* The dirEntry ReadDir builds for the child called name.
DirEntryOf(ns, dir, name) ==
    LET child == Child(ns, dir, name) IN
    IF IsFile(child)
    THEN FileStat(child).stat
    ELSE [name |-> child.name, size |-> DirSize, mode |-> Mode(child.perm, TRUE)]

\* The orders in which a range over the children map can yield its keys: Go
\* leaves the order unspecified and varies it from one range to the next.
Orders(S) ==
    {o \in [1..Cardinality(S) -> S] :
        \A i, j \in 1..Cardinality(S) : o[i] = o[j] => i = j}

\* ReadDir(n), names being the keys as this call's range yielded them.
ReadDirOp(ns, lk, d, names, n) ==
    IF d.dir \in lk
    THEN [d |-> d, ents |-> <<>>, err |-> Blocked]
    ELSE IF n <= 0 /\ d.idx >= Len(names)
    THEN [d |-> d, ents |-> <<>>, err |-> OK]
    ELSE IF n > 0 /\ d.idx + n > Len(names) /\ d.idx > Len(names)
    THEN [d |-> d, ents |-> <<>>, err |-> EOF]
    ELSE LET err == IF n > 0 /\ d.idx + n > Len(names) THEN EOF ELSE OK
             nn == IF n <= 0 THEN Len(names) ELSE n
             hi == Min(nn, Len(names))
             cnt == IF hi > d.idx THEN hi - d.idx ELSE 0
         IN [d |-> [d EXCEPT !.idx = IF cnt > 0 THEN hi ELSE @],
             ents |-> [j \in 1..cnt |-> DirEntryOf(ns, d.dir, names[d.idx + j])],
             err |-> err]

\* ------------------------------------------------------------ the caller
\* The bytes a stored File holds.
StoredContent(ns, arrs, p) ==
    SubSeq(Contents(arrs, ns[p].arr), ns[p].off + 1, ns[p].len)

\* What the caller has seen of a handle: the path it opened, the File's
\* bytes and permission (or the dir's children) when Open returned, the
\* bytes Read has returned, the names ReadDir has returned, whether Close
\* has returned nil.
NoGhost ==
    [path |-> <<>>, data |-> <<>>, perm |-> 0, kids |-> {}, got |-> <<>>,
     seen |-> {}, wasClosed |-> FALSE]

OpenGhost(ns, arrs, path, handle) ==
    IF IsFile(handle)
    THEN [NoGhost EXCEPT !.path = path,
                         !.data = StoredContent(ns, arrs, path),
                         !.perm = ns[path].perm]
    ELSE IF handle.kind = "fhDir"
    THEN [NoGhost EXCEPT !.path = handle.dir,
                         !.kids = ChildNames(ns, handle.dir)]
    ELSE NoGhost

EntryNames(ents) == {ents[i].name : i \in 1..Len(ents)}

\* ------------------------------------------------- the concurrent callers
ProcIds == 1..MaxProcs
ObjIds == 1..MaxProcs

\* A *File a call holds: nil, the File object the tree has under a key, or
\* a File object the tree no longer has.
NoRef == [at |-> "nil"]
TreeRef(key) == [at |-> "tree", key |-> key]
ObjRef(id) == [at |-> "obj", id |-> id]

Deref(ns, os, r) == IF r.at = "tree" THEN ns[r.key] ELSE os[r.id]

\* A caller: the call it is in (op and arguments), the statement it stands
\* at (at, and in: inside the critical section of cur.mu), the locals cur,
\* parts, f, the assignments of WriteFile still to be done (todo), the
\* error its last call returned, the mutexes that call has locked and not
\* unlocked, its handle variable, and the number of calls it has made.
NoProc ==
    [at |-> "idle", in |-> FALSE, op |-> "none", path |-> <<>>, data |-> <<>>,
     perm |-> 0, n |-> 0, cur |-> <<>>, parts |-> <<>>, f |-> NoRef,
     todo |-> {}, err |-> OK, held |-> {}, handle |-> NoHandle, calls |-> 0]

Init ==
    /\ procs = [c \in ProcIds |-> NoProc]
    /\ objs = [i \in ObjIds |-> NoNode]
    /\ wrote = {}
    /\ nodes = New
    /\ locked = {}
    /\ arrays = [i \in ArrIds |-> <<>>]
    /\ handles = [h \in HandleIds |-> NoHandle]
    /\ stuck = FALSE
    /\ ghost = [h \in HandleIds |-> NoGhost]

MkdirAll(path, perm) ==
    /\ ~stuck
    /\ LET r == MkdirAllOp(nodes, locked, path, perm) IN
       /\ NodeCount(r.nodes) <= MaxNodes
       /\ nodes' = r.nodes
       /\ locked' = r.locked
       /\ stuck' = (r.err = Blocked)
    /\ UNCHANGED <<arrays, handles, ghost, conc>>

WriteFile(path, data, perm) ==
    /\ ~stuck
    /\ LET r == WriteFileOp(nodes, locked, handles, arrays, path, data, perm) IN
       /\ NodeCount(r.nodes) <= MaxNodes
       /\ nodes' = r.nodes
       /\ arrays' = Collect(r.nodes, handles, r.arrays)
       /\ stuck' = (r.err = Blocked)
    /\ UNCHANGED <<locked, handles, ghost, conc>>

\* f, err := fs.Open(path), f being the caller's handle variable h.
Open(path, h) ==
    /\ ~stuck
    /\ LET r == OpenOp(nodes, locked, path) IN
       /\ handles' = IF r.err = Blocked THEN handles
                     ELSE [handles EXCEPT ![h] = r.handle]
       /\ arrays' = Collect(nodes, handles', arrays)
       /\ ghost' = IF r.err = Blocked THEN ghost
                   ELSE [ghost EXCEPT ![h] = OpenGhost(nodes, arrays, path, r.handle)]
       /\ stuck' = (r.err = Blocked)
    /\ UNCHANGED <<nodes, locked, conc>>

Read(h, m) ==
    /\ ~stuck
    /\ handles[h] # NoHandle
    /\ LET r == IF IsFile(handles[h]) THEN FileRead(handles[h], arrays, m)
                ELSE DirRead(handles[h]) IN
       /\ handles' = [handles EXCEPT ![h] = r.f]
       /\ ghost' = [ghost EXCEPT ![h].got = @ \o r.out]
    /\ UNCHANGED <<nodes, locked, arrays, stuck, conc>>

\* Stat reads the handle (and, for a dir, the dir) and changes nothing.
Stat(h) ==
    /\ ~stuck
    /\ handles[h] # NoHandle
    /\ LET r == IF IsFile(handles[h]) THEN FileStat(handles[h])
                ELSE DirStat(nodes, handles[h]) IN
       r.err \in {OK, ErrClosed}
    /\ UNCHANGED vars

Close(h) ==
    /\ ~stuck
    /\ handles[h] # NoHandle
    /\ LET r == IF IsFile(handles[h]) THEN FileClose(handles[h])
                ELSE DirClose(handles[h]) IN
       /\ handles' = [handles EXCEPT ![h] = r.f]
       /\ ghost' = [ghost EXCEPT ![h].wasClosed = @ \/ (r.err = OK)]
    /\ UNCHANGED <<nodes, locked, arrays, stuck, conc>>

ReadDir(h, n) ==
    /\ ~stuck
    /\ handles[h].kind = "fhDir"
    /\ \E names \in Orders(ChildNames(nodes, handles[h].dir)) :
         LET r == ReadDirOp(nodes, locked, handles[h], names, n) IN
         /\ handles' = [handles EXCEPT ![h] = r.d]
         /\ ghost' = [ghost EXCEPT ![h].seen = @ \cup EntryNames(r.ents)]
         /\ stuck' = (r.err = Blocked)
    /\ UNCHANGED <<nodes, locked, arrays, conc>>

Next ==
    \/ \E path \in Paths, perm \in Perms : MkdirAll(path, perm)
    \/ \E path \in Paths, data \in Data, perm \in Perms : WriteFile(path, data, perm)
    \/ \E path \in Paths, h \in HandleIds : Open(path, h)
    \/ \E h \in HandleIds, m \in 0..MaxBuf : Read(h, m)
    \/ \E h \in HandleIds : Stat(h)
    \/ \E h \in HandleIds : Close(h)
    \/ \E h \in HandleIds, n \in -1..MaxN : ReadDir(h, n)

Spec == Init /\ [][Next]_vars

\* ======================================================= concurrent callers
\* Each caller makes its calls one after the other; the statements of the
\* callers interleave.  A critical section runs as one step once the mutex
\* has been locked; the reads and writes of File fields that the code does
\* outside any critical section are steps of their own.

\* The File objects and handles outside the tree that point into arrays.
Holders(ps, os) ==
    [x \in ({"o"} \X ObjIds) \cup ({"h"} \X ProcIds) |->
        IF x[1] = "o" THEN os[x[2]] ELSE ps[x[2]].handle]

\* The garbage collector: a replaced File object no caller points to is gone.
CollectObjs(ps, os) ==
    [i \in ObjIds |-> IF \E c \in ProcIds : ps[c].f = ObjRef(i)
                      THEN os[i] ELSE NoNode]

\* dir.children[filePart] = newFile took the File object under key out of
\* the tree: the callers that point to it keep pointing to that object.
Replaced(ps, os, key, old) ==
    IF IsFile(old) /\ \E c \in ProcIds : ps[c].f = TreeRef(key)
    THEN LET free == {i \in ObjIds : \A c \in ProcIds : ps[c].f # ObjRef(i)}
             id == CHOOSE i \in free : \A j \in free : i <= j
         IN [procs |-> [c \in ProcIds |->
                           IF ps[c].f = TreeRef(key)
                           THEN [ps[c] EXCEPT !.f = ObjRef(id)] ELSE ps[c]],
             objs |-> [os EXCEPT ![id] = old]]
    ELSE [procs |-> ps, objs |-> os]

\* The call has been made: the arguments are on the caller's stack.
Begin(p, op, path, data, perm, n) ==
    [p EXCEPT !.op = op, !.path = path, !.data = data, !.perm = perm,
              !.n = n, !.err = OK, !.held = {}, !.calls = @ + 1]

\* The call returns e: its locals are gone.
Done(p, e) ==
    [p EXCEPT !.at = "done", !.in = FALSE, !.err = e, !.cur = <<>>,
              !.parts = <<>>, !.f = NoRef, !.todo = {}]

CanCall(c) == procs[c].at \in {"idle", "done"} /\ procs[c].calls < MaxCalls

InFlight(p) == p.at \notin {"idle", "done"}

\* The caller's step leaves the tree of procs as ps and the objects as os:
\* what nothing points to any more is collected.
Settle(ps, os, arrs) ==
    /\ procs' = ps
    /\ objs' = CollectObjs(ps, os)
    /\ arrays' = Collect(nodes', Holders(ps, CollectObjs(ps, os)), arrs)

\* cur.mu.Lock() (dir.mu for create, d.dir.mu for ReadDir): waits while the
\* mutex is locked, by whichever caller.
Lock(c) ==
    /\ procs[c].at \in {"mk", "gd", "cr", "get", "rd"}
    /\ ~procs[c].in
    /\ procs[c].cur \notin locked
    /\ locked' = locked \cup {procs[c].cur}
    /\ procs' = [procs EXCEPT ![c].in = TRUE, ![c].held = @ \cup {procs[c].cur}]
    /\ UNCHANGED <<nodes, arrays, handles, stuck, ghost, objs, wrote>>

CallMkdirAll(c, path, perm) ==
    /\ CanCall(c)
    /\ LET b == Begin(procs[c], "MkdirAll", path, <<>>, perm, 0) IN
       procs' = [procs EXCEPT ![c] =
                    IF ~ValidPath(path) THEN Done(b, ErrInvalid)
                    ELSE IF path = DotPath THEN Done(b, OK)
                    ELSE [b EXCEPT !.at = "mk", !.cur = RootPath, !.parts = path]]
    /\ UNCHANGED <<nodes, locked, arrays, handles, stuck, ghost, objs, wrote>>

\* One iteration of MkdirAll's loop, cur.mu locked.
MkdirAllBody(c) ==
    /\ procs[c].at = "mk" /\ procs[c].in
    /\ LET p == procs[c]
           s == MkdirAllStep(nodes, locked \ {p.cur}, p.cur, Head(p.parts), p.perm)
           q == [p EXCEPT !.held = IF p.cur \in s.locked THEN @ ELSE @ \ {p.cur}]
       IN /\ nodes' = s.nodes
          /\ locked' = s.locked
          /\ procs' = [procs EXCEPT ![c] =
                          IF s.err # OK THEN Done(q, s.err)
                          ELSE IF Len(p.parts) = 1 THEN Done(q, OK)
                          ELSE [q EXCEPT !.in = FALSE, !.cur = s.next,
                                         !.parts = Tail(@)]]
    /\ UNCHANGED <<arrays, handles, stuck, ghost, objs, wrote>>

\* WriteFile up to create's call of getDir: "." has become "", which
\* create refuses.
CallWriteFile(c, path, data, perm) ==
    /\ CanCall(c)
    /\ LET b == Begin(procs[c], "WriteFile", path, data, perm, 0) IN
       procs' = [procs EXCEPT ![c] =
                    IF ~ValidPath(path) \/ path = DotPath THEN Done(b, ErrInvalid)
                    ELSE IF DirPart(path) = <<>>
                    THEN [b EXCEPT !.at = "cr", !.cur = RootPath]
                    ELSE [b EXCEPT !.at = "gd", !.cur = RootPath,
                                   !.parts = DirPart(path)]]
    /\ wrote' = IF ValidPath(path) /\ path # DotPath
                THEN wrote \cup {<<path, data, perm>>} ELSE wrote
    /\ UNCHANGED <<nodes, locked, arrays, handles, stuck, ghost, objs>>

\* One iteration of getDir's loop, cur.mu locked and unlocked on the way out.
getDirBody(c) ==
    /\ procs[c].at = "gd" /\ procs[c].in
    /\ LET p == procs[c]
           s == getDirStep(nodes, locked \ {p.cur}, p.cur, Head(p.parts))
           q == [p EXCEPT !.held = @ \ {p.cur}, !.in = FALSE]
       IN /\ locked' = locked \ {p.cur}
          /\ procs' = [procs EXCEPT ![c] =
                          IF s.err # OK THEN Done(q, s.err)
                          ELSE IF Len(p.parts) = 1
                          THEN [q EXCEPT !.at = "cr", !.cur = s.next, !.parts = <<>>]
                          ELSE [q EXCEPT !.cur = s.next, !.parts = Tail(@)]]
    /\ UNCHANGED <<nodes, arrays, handles, stuck, ghost, objs, wrote>>

\* create's critical section on dir.mu; WriteFile then holds the new File.
createBody(c) ==
    /\ procs[c].at = "cr" /\ procs[c].in
    /\ LET p == procs[c]
           s == createStep(nodes, locked \ {p.cur}, p.cur, FilePart(p.path))
           q == [p EXCEPT !.held = @ \ {p.cur}, !.in = FALSE]
       IN /\ locked' = locked \ {p.cur}
          /\ nodes' = s.nodes
          /\ IF s.err # OK
             THEN Settle([procs EXCEPT ![c] = Done(q, s.err)], objs, arrays)
             ELSE LET r == Replaced(procs, objs, s.f, nodes[s.f]) IN
                  Settle([r.procs EXCEPT ![c] =
                              [q EXCEPT !.at = "wf", !.f = TreeRef(s.f),
                                        !.todo = {"content", "perm"}]],
                         r.objs, arrays)
    /\ UNCHANGED <<handles, stuck, ghost, wrote>>

\* f.content = bytes.NewBuffer(data)
AssignContent(f, buf) == [f EXCEPT !.arr = buf.arr, !.off = 0, !.len = buf.len]

\* f.perm = perm
AssignPerm(f, perm) == [f EXCEPT !.perm = perm]

\* WriteFile returns nil once both assignments are done.
Assigned(p, what) ==
    IF p.todo = {what} THEN Done(p, OK) ELSE [p EXCEPT !.todo = @ \ {what}]

\* f.content = bytes.NewBuffer(data), outside any critical section.  Nothing
\* orders it with f.perm = perm for another goroutine, so the two take
\* effect in either order.
WriteContent(c) ==
    /\ procs[c].at = "wf" /\ "content" \in procs[c].todo
    /\ LET p == procs[c]
           buf == NewBuffer(nodes, Holders(procs, objs), arrays, p.data)
           os == IF p.f.at = "obj"
                 THEN [objs EXCEPT ![p.f.id] = AssignContent(@, buf)] ELSE objs
       IN /\ nodes' = IF p.f.at = "tree"
                      THEN [nodes EXCEPT ![p.f.key] = AssignContent(@, buf)]
                      ELSE nodes
          /\ Settle([procs EXCEPT ![c] = Assigned(p, "content")], os, buf.arrays)
    /\ UNCHANGED <<locked, handles, stuck, ghost, wrote>>

\* f.perm = perm, outside any critical section.
WritePerm(c) ==
    /\ procs[c].at = "wf" /\ "perm" \in procs[c].todo
    /\ LET p == procs[c]
           os == IF p.f.at = "obj"
                 THEN [objs EXCEPT ![p.f.id] = AssignPerm(@, p.perm)] ELSE objs
       IN /\ nodes' = IF p.f.at = "tree"
                      THEN [nodes EXCEPT ![p.f.key] = AssignPerm(@, p.perm)]
                      ELSE nodes
          /\ Settle([procs EXCEPT ![c] = Assigned(p, "perm")], os, arrays)
    /\ UNCHANGED <<locked, handles, stuck, ghost, wrote>>

\* Open up to the call of get: "." has become "", the root, which get
\* returns without locking.
CallOpen(c, path) ==
    /\ CanCall(c)
    /\ LET b == Begin(procs[c], "Open", path, <<>>, 0, 0) IN
       /\ nodes' = nodes
       /\ Settle([procs EXCEPT ![c] =
                     IF ~ValidPath(path)
                     THEN Done([b EXCEPT !.handle = NoHandle], ErrInvalid)
                     ELSE IF path = DotPath
                     THEN Done([b EXCEPT !.handle = NewFhDir(RootPath)], OK)
                     ELSE [b EXCEPT !.at = "get", !.cur = RootPath,
                                    !.parts = path]],
                 objs, arrays)
    /\ UNCHANGED <<locked, handles, stuck, ghost, wrote>>

\* One iteration of get's loop, cur.mu locked and unlocked on the way out;
\* after the last one Open has child: a dir gives the handle at once, a
\* File is still to be read.
getBody(c) ==
    /\ procs[c].at = "get" /\ procs[c].in
    /\ LET p == procs[c]
           s == getStep(nodes, locked \ {p.cur}, p.cur, Head(p.parts),
                        Len(p.parts) = 1)
           q == [p EXCEPT !.held = @ \ {p.cur}, !.in = FALSE]
       IN /\ locked' = locked \ {p.cur}
          /\ nodes' = nodes
          /\ Settle([procs EXCEPT ![c] =
                        IF s.err # OK
                        THEN Done([q EXCEPT !.handle = NoHandle], s.err)
                        ELSE IF Len(p.parts) > 1
                        THEN [q EXCEPT !.cur = s.next, !.parts = Tail(@)]
                        ELSE IF IsFile(nodes[s.chld])
                        THEN [q EXCEPT !.at = "open", !.f = TreeRef(s.chld),
                                       !.cur = <<>>, !.parts = <<>>]
                        ELSE Done([q EXCEPT !.handle = NewFhDir(s.chld)], OK)],
                    objs, arrays)
    /\ UNCHANGED <<handles, stuck, ghost, wrote>>

\* handle := &File{name: cc.name, perm: cc.perm, content: ...}: the File's
\* fields are read outside any critical section.
OpenRead(c) ==
    /\ procs[c].at = "open"
    /\ LET p == procs[c] IN
       /\ nodes' = nodes
       /\ Settle([procs EXCEPT ![c] =
                     Done([p EXCEPT !.handle = OpenHandle(Deref(nodes, objs, p.f))],
                          OK)],
                 objs, arrays)
    /\ UNCHANGED <<locked, handles, stuck, ghost, wrote>>

\* d.ReadDir(n) on the caller's handle.
CallReadDir(c, n) ==
    /\ CanCall(c)
    /\ procs[c].handle.kind = "fhDir"
    /\ procs' = [procs EXCEPT ![c] =
                    [Begin(procs[c], "ReadDir", <<>>, <<>>, 0, n)
                        EXCEPT !.at = "rd", !.cur = procs[c].handle.dir]]
    /\ UNCHANGED <<nodes, locked, arrays, handles, stuck, ghost, objs, wrote>>

\* ReadDir's body, d.dir.mu locked and unlocked on the way out.
ReadDirBody(c) ==
    /\ procs[c].at = "rd" /\ procs[c].in
    /\ LET p == procs[c] IN
       \E names \in Orders(ChildNames(nodes, p.cur)) :
          LET r == ReadDirOp(nodes, locked \ {p.cur}, p.handle, names, p.n) IN
          /\ locked' = locked \ {p.cur}
          /\ procs' = [procs EXCEPT ![c] =
                          Done([p EXCEPT !.held = @ \ {p.cur}, !.handle = r.d],
                               r.err)]
    /\ UNCHANGED <<nodes, arrays, handles, stuck, ghost, objs, wrote>>

\* The arguments the concurrent callers pass: two names in the root and a
\* name below one of them; two writes that differ in data and in perm.
CPaths == {<<"a">>, <<"b">>, <<"a", "b">>}
CWrites == {<<<<1>>, 420>>, <<<<2>>, 511>>}

ProcStep(c) ==
    \/ \E path \in CPaths, perm \in Perms : CallMkdirAll(c, path, perm)
    \/ \E path \in CPaths, w \in CWrites : CallWriteFile(c, path, w[1], w[2])
    \/ \E path \in CPaths : CallOpen(c, path)
    \/ \E n \in {0, 1} : CallReadDir(c, n)
    \/ Lock(c)
    \/ MkdirAllBody(c)
    \/ getDirBody(c)
    \/ createBody(c)
    \/ WriteContent(c)
    \/ WritePerm(c)
    \/ getBody(c)
    \/ OpenRead(c)
    \/ ReadDirBody(c)

ConcNext == \E c \in ProcIds : ProcStep(c)

ConcSpec == Init /\ [][ConcNext]_vars

\* The Go scheduler lets every goroutine that can run do so.
FairSpec == ConcSpec /\ \A c \in ProcIds : WF_vars(ProcStep(c))

\* ================================================================= claims
\* Reading a handle to end-of-data with a buffer of m >= 1 bytes: the bytes
\* the Reads return until one returns an error.
RECURSIVE ReadAllFrom(_, _, _, _)
ReadAllFrom(f, arrs, m, acc) ==
    LET r == FileRead(f, arrs, m) IN
    IF r.err # OK THEN acc ELSE ReadAllFrom(r.f, arrs, m, acc \o r.out)

ReadAll(f, arrs, m) == ReadAllFrom(f, arrs, m, <<>>)

BufSizes == 1..MaxBuf

FileHandles == {h \in HandleIds : IsFile(handles[h])}
DirHandles == {h \in HandleIds : handles[h].kind = "fhDir"}

C2_SnapshotIsolation ==
    \A h \in FileHandles :
        ~handles[h].closed =>
            /\ \A m \in BufSizes :
                   ghost[h].got \o ReadAll(handles[h], arrays, m) = ghost[h].data
            /\ FileStat(handles[h]).stat.mode = Mode(ghost[h].perm, FALSE)

\* C2 witness: an open handle with unread bytes whose path has since been
\* overwritten with other bytes and another permission.
C2_Witness ==
    \E h \in FileHandles :
        /\ ~handles[h].closed
        /\ ghost[h].data # <<>>
        /\ ghost[h].got = <<>>
        /\ IsFile(nodes[ghost[h].path])
        /\ StoredContent(nodes, arrays, ghost[h].path) # ghost[h].data
        /\ StoredContent(nodes, arrays, ghost[h].path) # <<>>
        /\ nodes[ghost[h].path].perm # ghost[h].perm

\* C3: in every reachable state, when MkdirAll(p, perm) returns nil, a
\* second MkdirAll(p, perm2) right after it returns nil and leaves the tree
\* exactly as the first call left it.
C3_MkdirAllIdempotent ==
    \A p \in Paths, pm \in Perms, pm2 \in Perms :
        LET r1 == MkdirAllOp(nodes, locked, p, pm) IN
        r1.err = OK =>
            LET r2 == MkdirAllOp(r1.nodes, r1.locked, p, pm2) IN
            /\ r2.err = OK
            /\ r2.nodes = r1.nodes
            /\ r2.locked = r1.locked

\* C3 witness: a directory made by one MkdirAll call under a directory made
\* by an earlier call with another permission: the later call walked through
\* the existing directory and left its permission alone.
C3_Witness ==
    \E p \in TreePaths :
        /\ Len(p) = 2
        /\ IsDir(nodes[p])
        /\ IsDir(nodes[DirPart(p)])
        /\ nodes[p].perm # nodes[DirPart(p)].perm
        /\ ~stuck

Prefixes(p) == {SubSeq(p, 1, i) : i \in 1..Len(p)}

\* The keys a valid path names: "." names the root.
TargetPrefixes(p) == IF p = DotPath THEN {RootPath} ELSE Prefixes(p)

\* Some segment of p names a File.
FileOnPath(ns, p) == p # DotPath /\ \E q \in Prefixes(p) : IsFile(ns[q])

\* C4: in every reachable state, MkdirAll(p, perm) on a valid path returns
\* the not-a-directory error exactly when some segment of p names a File;
\* otherwise it returns nil, every prefix of p is then a Directory, every
\* directory it had to make carries perm, and every node that existed before
\* is unchanged.
C4_MkdirAllOutcome ==
    \A p \in ValidPaths, pm \in Perms :
        LET r == MkdirAllOp(nodes, locked, p, pm) IN
        /\ (r.err = ErrNotDir) <=> FileOnPath(nodes, p)
        /\ ~FileOnPath(nodes, p) =>
              /\ r.err = OK
              /\ \A q \in TargetPrefixes(p) :
                     /\ IsDir(r.nodes[q])
                     /\ nodes[q] = NoNode => r.nodes[q].perm = pm
              /\ \A q \in TreePaths : nodes[q] # NoNode => r.nodes[q] = nodes[q]

\* C5: in every reachable state, WriteFile(p, data, perm) where the parent
\* directory of p does not exist returns the no-such-file error, leaves the
\* tree as it was, and an Open(p) right after it returns an error too.
C5_WriteFileMissingParent ==
    \A p \in ValidPaths, d \in Data, pm \in Perms :
        (p # DotPath /\ nodes[DirPart(p)] = NoNode) =>
            LET w == WriteFileOp(nodes, locked, handles, arrays, p, d, pm) IN
            /\ w.err = ErrNoEnt
            /\ w.nodes = nodes
            /\ OpenOp(w.nodes, locked, p).err \notin {OK, Blocked}

\* C6: in every reachable state, WriteFile(p, data, perm) where p names a
\* Directory returns the is-a-directory error and leaves the tree, that
\* Directory and everything below it included, as it was.
C6_WriteFileOnDirectory ==
    \A p \in ValidPaths, d \in Data, pm \in Perms :
        (p # DotPath /\ IsDir(nodes[p])) =>
            LET w == WriteFileOp(nodes, locked, handles, arrays, p, d, pm) IN
            /\ w.err = ErrIsDir
            /\ w.nodes = nodes

\* A directory handle whose directory has the children it had when the
\* handle was opened, and whose mutex is free.
Unmutated(h) ==
    /\ ChildNames(nodes, handles[h].dir) = ghost[h].kids
    /\ handles[h].dir \notin locked

\* C7: on a handle of a directory that has not been mutated, ReadDir(n) with
\* n > 0 returns min(n, remaining) entries, none of them returned before,
\* and advances the cursor by that number; the call that asks for more than
\* remains returns the remainder together with end-of-data.
C7_ReadDirPagination ==
    \A h \in DirHandles :
        Unmutated(h) =>
            \A n \in 1..MaxN, names \in Orders(ghost[h].kids) :
                LET r == ReadDirOp(nodes, locked, handles[h], names, n)
                    rem == Cardinality(ghost[h].kids) - handles[h].idx
                IN /\ Len(r.ents) = Min(n, rem)
                   /\ r.d.idx = handles[h].idx + Len(r.ents)
                   /\ Cardinality(EntryNames(r.ents)) = Len(r.ents)
                   /\ EntryNames(r.ents) \cap ghost[h].seen = {}
                   /\ n > rem =>
                         /\ r.err = EOF
                         /\ ghost[h].seen \cup EntryNames(r.ents) = ghost[h].kids

\* C8: on a handle of a directory that has not been mutated, at any cursor,
\* ReadDir(n) with n <= 0 returns exactly the children the handle has not
\* returned yet, with no error, and leaves the cursor at the end; a further
\* ReadDir(n <= 0) returns nothing and no error, a further ReadDir(n > 0)
\* nothing and end-of-data.
C8_ReadDirDrain ==
    \A h \in DirHandles :
        Unmutated(h) =>
            \A n \in -1..0, names \in Orders(ghost[h].kids) :
                LET r == ReadDirOp(nodes, locked, handles[h], names, n) IN
                /\ r.err = OK
                /\ EntryNames(r.ents) = ghost[h].kids \ ghost[h].seen
                /\ Len(r.ents) = Cardinality(ghost[h].kids \ ghost[h].seen)
                /\ r.d.idx = Cardinality(ghost[h].kids)
                /\ \A n2 \in -1..MaxN, names2 \in Orders(ghost[h].kids) :
                       LET r2 == ReadDirOp(nodes, locked, r.d, names2, n2) IN
                       /\ r2.ents = <<>>
                       /\ r2.err = IF n2 <= 0 THEN OK ELSE EOF

\* C9: the first Close of a File handle returns nil and closes it; once Close
\* has returned nil, in every later state the handle is closed, and Read,
\* Stat and Close on it return the file-closed error, Read returning no
\* bytes, and leave it closed.
C9_CloseIsFinal ==
    \A h \in FileHandles :
        /\ ~ghost[h].wasClosed =>
              /\ FileClose(handles[h]).err = OK
              /\ FileClose(handles[h]).f.closed
        /\ ghost[h].wasClosed =>
              /\ handles[h].closed
              /\ FileStat(handles[h]).err = ErrClosed
              /\ FileClose(handles[h]).err = ErrClosed
              /\ FileClose(handles[h]).f.closed
              /\ \A m \in 0..MaxBuf :
                     /\ FileRead(handles[h], arrays, m).err = ErrClosed
                     /\ FileRead(handles[h], arrays, m).out = <<>>
                     /\ FileRead(handles[h], arrays, m).f.closed

\* C9 witness: Close has returned nil on a File handle that still had bytes
\* to read, and the path has been overwritten since.
C9_Witness ==
    \E h \in FileHandles :
        /\ ghost[h].wasClosed
        /\ handles[h].off < handles[h].len
        /\ IsFile(nodes[ghost[h].path])
        /\ StoredContent(nodes, arrays, ghost[h].path) # ghost[h].data

\* C10: Stat on an open File handle reports the number of bytes the file
\* held when it was opened, whatever has been read from the handle.
C10_StatSizeFixed ==
    \A h \in FileHandles :
        ~handles[h].closed =>
            /\ FileStat(handles[h]).err = OK
            /\ FileStat(handles[h]).stat.size = Len(ghost[h].data)

\* C11: under fair scheduling of the callers, every call that has been made
\* returns, whatever calls have returned errors before it.
C11_EveryCallReturns ==
    \A c \in ProcIds : InFlight(procs[c]) ~> (procs[c].at = "done")

\* C15: in every reachable state each caller has locked and not unlocked at
\* most one mutex, only while it is inside the critical section of the dir
\* it stands at (so never a dir's and its child's together), and none once
\* its call has returned, with nil or with an error.
C15_LockDiscipline ==
    \A c \in ProcIds :
        /\ Cardinality(procs[c].held) <= 1
        /\ procs[c].in => procs[c].held = {procs[c].cur}
        /\ procs[c].at \in {"idle", "done"} => procs[c].held = {}

\* This step is the return of caller c's call of op, with nil.
ReturnsOK(c, op) ==
    /\ InFlight(procs[c])
    /\ procs[c].op = op
    /\ procs'[c].at = "done"
    /\ procs'[c].err = OK

\* Another caller is inside a WriteFile of the same path.
OtherWriter(c, path) ==
    \E c2 \in ProcIds \ {c} :
        /\ InFlight(procs[c2])
        /\ procs[c2].op = "WriteFile"
        /\ procs[c2].path = path

\* C12: whenever a WriteFile(p, data, perm) returns nil and no other
\* WriteFile of p is still running (all the writers of p have returned and
\* this one returned last), the path stores exactly data and perm.
C12_LastWriteWins ==
    [][\A c \in ProcIds :
          (ReturnsOK(c, "WriteFile") /\ ~OtherWriter(c, procs[c].path)) =>
              /\ IsFile(nodes'[procs[c].path])
              /\ StoredContent(nodes', arrays', procs[c].path) = procs[c].data
              /\ nodes'[procs[c].path].perm = procs[c].perm]_vars

\* The bytes a File handle has to read.
HandleContent(f, arrs) == SubSeq(Contents(arrs, f.arr), f.off + 1, f.len)

\* C18: whenever an Open(p) has returned a File handle, the handle's bytes
\* and permission are together the data and perm of one WriteFile(p, data,
\* perm) call that has been made.
C18_AtomicVisibility ==
    \A c \in ProcIds :
        (/\ procs[c].at = "done"
         /\ procs[c].op = "Open"
         /\ procs[c].err = OK
         /\ IsFile(procs[c].handle)) =>
            \E w \in wrote :
                /\ w[1] = procs[c].path
                /\ w[2] = HandleContent(procs[c].handle, arrays)
                /\ w[3] = procs[c].handle.perm

\* A MkdirAll(p) and a WriteFile(p) have both returned nil.
BothSucceeded(ps) ==
    \E c1, c2 \in ProcIds :
        /\ ps[c1].at = "done" /\ ps[c1].op = "MkdirAll" /\ ps[c1].err = OK
        /\ ps[c2].at = "done" /\ ps[c2].op = "WriteFile" /\ ps[c2].err = OK
        /\ ps[c1].path = ps[c2].path

\* C16: no step of any interleaving of the callers turns a name bound to a
\* Directory into anything but that Directory's name, or a name bound to a
\* File into anything but a File's name, and no step leads to a state where
\* a MkdirAll(p) and a WriteFile(p) have both returned nil.
C16_KindsStable ==
    [][/\ \A p \in TreePaths :
              /\ IsDir(nodes[p]) => IsDir(nodes'[p])
              /\ IsFile(nodes[p]) => IsFile(nodes'[p])
       /\ ~BothSucceeded(procs')]_vars

\* C16 witness: a MkdirAll(p) and a WriteFile(p), each its caller's first
\* call, ran at the same time on a path absent before: the MkdirAll has
\* returned not-a-directory while the WriteFile, whose create bound the
\* name to a File, has not returned yet.
C16_Witness ==
    \E c1, c2 \in ProcIds :
        /\ procs[c1].at = "done" /\ procs[c1].op = "MkdirAll"
        /\ procs[c1].err = ErrNotDir /\ procs[c1].calls = 1
        /\ procs[c2].at = "wf" /\ procs[c2].op = "WriteFile"
        /\ procs[c2].calls = 1
        /\ procs[c1].path = procs[c2].path
        /\ IsFile(nodes[procs[c2].path])

\* Caller c is inside a MkdirAll.
InMkdirAll(c) == InFlight(procs[c]) /\ procs[c].op = "MkdirAll"

\* Two MkdirAll calls whose paths share their first directory run at the
\* same time.
Overlapping(c1, c2) ==
    /\ c1 # c2
    /\ InMkdirAll(c1)
    /\ InMkdirAll(c2)
    /\ procs[c1].path[1] = procs[c2].path[1]

\* C20: no step replaces or drops a Directory node; whenever a MkdirAll(p)
\* has returned nil every prefix of p is a Directory; and, the callers being
\* scheduled fairly, of two MkdirAll calls with overlapping paths that run
\* at the same time each returns nil, unless a File is bound on the path of
\* one of them.
C20_NoLostDirectories ==
    /\ [][\A p \in TreePaths : IsDir(nodes[p]) => nodes'[p] = nodes[p]]_vars
    /\ [](\A c \in ProcIds :
             (/\ procs[c].at = "done"
              /\ procs[c].op = "MkdirAll"
              /\ procs[c].err = OK) =>
                 \A q \in TargetPrefixes(procs[c].path) : IsDir(nodes[q]))
    /\ \A c1 \in ProcIds : \A c2 \in ProcIds \ {c1} :
           Overlapping(c1, c2)
               ~> \/ procs[c1].at = "done" /\ procs[c1].err = OK
                  \/ FileOnPath(nodes, procs[c1].path)
                  \/ FileOnPath(nodes, procs[c2].path)

\* The names that can be added to directory d: the keys one name below d
\* that are bound to nothing.
Addable(ns, d) == {nm \in Names : Append(d, nm) \in DOMAIN ns /\ Child(ns, d, nm) = NoNode}

\* C17: in every reachable state, after any ReadDir call on a directory
\* handle, a child that a later MkdirAll adds to the directory is not among
\* the entries of any ReadDir call made on the handle after that.
C17_OneSnapshot ==
    \A h \in DirHandles :
        handles[h].dir \notin locked =>
            \A n1 \in -1..MaxN,
               names1 \in Orders(ChildNames(nodes, handles[h].dir)),
               nm \in Addable(nodes, handles[h].dir), pm \in Perms :
                LET d == handles[h].dir
                    r1 == ReadDirOp(nodes, locked, handles[h], names1, n1)
                    mk == MkdirAllOp(nodes, locked, Append(d, nm), pm)
                IN mk.err = OK =>
                      \A n2 \in -1..MaxN, names2 \in Orders(ChildNames(mk.nodes, d)) :
                          nm \notin EntryNames(
                              ReadDirOp(mk.nodes, mk.locked, r1.d, names2, n2).ents)

\* C19: on a handle of a directory that has not been mutated, no ReadDir(n)
\* with n > 0 returns no entry together with no error, so a caller that
\* repeats ReadDir(n) until end-of-data is not left calling for ever.
C19_ReadDirProgress ==
    \A h \in DirHandles :
        Unmutated(h) =>
            \A n \in 1..MaxN, names \in Orders(ghost[h].kids) :
                LET r == ReadDirOp(nodes, locked, handles[h], names, n) IN
                ~(r.ents = <<>> /\ r.err = OK)

\* ------------------------------------------------------------- FS.Remove
\* Remove is described by the specification and exercised by the tests; the
\* sources modelled above do not contain it.  It is modelled from its
\* description: validate the path, resolve the parent directory as create
\* does, fail with no-such-file if the parent or the leaf is absent,
\* otherwise delete the leaf from the parent's children, with all that is
\* below it, in one critical section on the parent's mutex.

\* Key q is key p or lies below it.
IsUnder(p, q) == Len(q) >= Len(p) /\ SubSeq(q, 1, Len(p)) = p

RemoveOp(ns, lk, path) ==
    IF ~ValidPath(path)
    THEN [nodes |-> ns, locked |-> lk, err |-> ErrInvalid]
    ELSE IF path = DotPath
    THEN [nodes |-> ns, locked |-> lk,
          err |-> IF RootPath \in lk THEN Blocked ELSE ErrNoEnt]
    ELSE LET d == getDir(ns, lk, DirPart(path)) IN
         IF d.err # OK
         THEN [nodes |-> ns, locked |-> lk, err |-> d.err]
         ELSE IF d.dir \in lk
         THEN [nodes |-> ns, locked |-> lk, err |-> Blocked]
         ELSE IF Child(ns, d.dir, FilePart(path)) = NoNode
         THEN [nodes |-> ns, locked |-> lk, err |-> ErrNoEnt]
         ELSE [nodes |-> [q \in DOMAIN ns |->
                             IF IsUnder(path, q) THEN NoNode ELSE ns[q]],
               locked |-> {q \in lk : ~IsUnder(path, q)},
               err |-> OK]

\* C13: in every reachable state, a Remove(p) of a Directory p that returns
\* nil leaves Open of p and of every path below p failing with no-such-file,
\* p not among its parent's children, and every node outside p's subtree as
\* it was; a Remove(p) whose parent directory is absent, or whose leaf is
\* absent from its parent directory, returns no-such-file and leaves the
\* tree as it was.
C13_RemoveSubtree ==
    \A p \in ValidPaths \ {DotPath} :
        LET r == RemoveOp(nodes, locked, p) IN
        /\ (IsDir(nodes[p]) /\ r.err = OK) =>
              /\ \A q \in TreePaths :
                     IsUnder(p, q) => OpenOp(r.nodes, r.locked, q).err = ErrNoEnt
              /\ FilePart(p) \notin ChildNames(r.nodes, DirPart(p))
              /\ \A q \in TreePaths : ~IsUnder(p, q) => r.nodes[q] = nodes[q]
        /\ (\/ nodes[DirPart(p)] = NoNode
            \/ IsDir(nodes[DirPart(p)]) /\ nodes[p] = NoNode) =>
              /\ r.err = ErrNoEnt
              /\ r.nodes = nodes

\* ------------------------------------------------------------ open hook
\* WithOpenHook declares the hook and TestOpenHook installs one; the
\* constructor and the Open modelled above take no option and call no hook.
\* The call of the hook is modelled from the specification: the hook runs
\* after the normal open attempt, with the path, the content the attempt
\* found (nil if none) and the attempt's error; an error it returns is
\* Open's error, content it returns is a new File with the default
\* permission.  A hook that hands back nothing for a Directory leaves the
\* Directory handle in place.  An attempt that never returns never reaches
\* the hook.

\* The path TestOpenHook overrides and the content it gives it.
HookedPath == <<"a", "b">>
HookContent == <<0>>

\* The hook of TestOpenHook: fixed content for one path, otherwise what it
\* was given.
openHook(path, content, origError) ==
    IF path = HookedPath
    THEN [content |-> HookContent, err |-> OK]
    ELSE [content |-> content, err |-> origError]

OpenWithHook(ns, lk, arrs, name) ==
    LET r == OpenOp(ns, lk, name)
        existing == IF r.err = OK /\ IsFile(r.handle)
                    THEN HandleContent(r.handle, arrs)
                    ELSE <<>>
        h == openHook(name, existing, r.err)
    IN IF r.err = Blocked
       THEN [kind |-> "none", content |-> <<>>, perm |-> 0, err |-> Blocked]
       ELSE IF h.err # OK
       THEN [kind |-> "none", content |-> <<>>, perm |-> 0, err |-> h.err]
       ELSE IF r.err = OK /\ ~IsFile(r.handle) /\ h.content = <<>>
       THEN [kind |-> "fhDir", content |-> <<>>, perm |-> 0, err |-> OK]
       ELSE [kind |-> "file", content |-> h.content, perm |-> DefaultPerm,
             err |-> OK]

\* C14: in every reachable state, on a filesystem with the hook installed,
\* Open of the hooked path returns a File handle holding the hook's content,
\* whether or not a file is stored there; Open of any other path that holds
\* a File returns a File handle holding the stored content; and Open of any
\* other path that does not exist (no node there, no File on the way)
\* returns the no-such-file error.
C14_OpenHookOverride ==
    \A p \in ValidPaths \ {DotPath} :
        LET r == OpenWithHook(nodes, locked, arrays, p) IN
        /\ p = HookedPath =>
              r.err = OK /\ r.kind = "file" /\ r.content = HookContent
        /\ (p # HookedPath /\ IsFile(nodes[p])) =>
              /\ r.err = OK /\ r.kind = "file"
              /\ r.content = StoredContent(nodes, arrays, p)
        /\ (p # HookedPath /\ nodes[p] = NoNode /\ ~FileOnPath(nodes, p)) =>
              r.err = ErrNoEnt

====
